---------------------------- MODULE Spec2Model ----------------------------
(***************************************************************************)
(* The voxel world store of peter-hunt/minecraft (src/model.py): the       *)
(* sparse block map `world`, the visible set `shown`, the geometry handles *)
(* `_shown` held in the render `batch`, the sector buckets `sectors` and   *)
(* the deferred visibility `queue`.                                        *)
(*                                                                         *)
(* Every method of Model is an operator from a store record to a store     *)
(* record; a raised exception is the field err, and every operator passes  *)
(* a store whose err is set through unchanged, as an exception that        *)
(* propagates skips the rest of its callers.                               *)
(***************************************************************************)
EXTENDS Integers, Sequences, FiniteSets, Bags, TLC

VARIABLES
    world,      \* Model.world: position -> name of the block there
    shown,      \* Model.shown: position -> texture coordinates
    _shown,     \* Model._shown: position -> vertex list
    batch,      \* Model.batch: the bag of live vertex lists
    sectors,    \* Model.sectors: sector -> list of positions
    queue,      \* Model.queue: the deferred _show_block / _hide_block calls
    err,        \* the exception the last call raised, or "ok"
    at_sector,  \* the sector last walked into (Window.sector), None at first
    pc,         \* "new" before generate_terrain has run, "run" after
    steps,      \* number of calls made on the store since construction
    last        \* the last call made on the store

vars == <<world, shown, _shown, batch, sectors, queue, err, at_sector, pc, steps, last>>

---------------------------------------------------------------------------
(* Bounds of the model. *)

\* Half width of the generated square region (n = 64 in the source).
TerrainN == 1

\* Edge of a sector in blocks (CHUNK_SIZE of the constants module).
CHUNK_SIZE == 2

\* The terrain heights the noise sum is taken to produce: -MaxDepth..MaxHeight.
MaxDepth == 1
MaxHeight == 2

\* Number of calls made on the store after construction.
MaxOps == 3

\* Most calls one time-boxed drain is taken to make before its budget is spent.
MaxBurst == 2

\* Most mouse presses made on a world.
MaxPresses == 2

\* Longest line of sight, in blocks, hit_test is called with.
MaxDistance == 2

---------------------------------------------------------------------------
(* Program constants. *)

\* Samples hit_test takes per block of distance (m = 8).
HitSteps == 8

\* The player's coordinates are kept in tenths of a block, the resolution of
\* the padding of collide (pad = 0.2).
Tenths == 10

\* pad of collide, in tenths of a block.
collide_pad == 2

\* max_distance of hit_test when the caller gives none.
SightDistance == 8

\* Padding of the sector neighbourhood, in sectors.
pad == 4

\* Grid of the texture atlas (default n of tex_coord); texture coordinates
\* are kept in units of 1 / AtlasN.
AtlasN == 4

\* FACES as it would be without the face (0, -1, 0).
FacesWithoutBottom ==
    << << 0, 1, 0>>,
       <<-1, 0, 0>>, << 1,  0, 0>>,
       << 0, 0, 1>>, << 0,  0, -1>> >>

FACES ==
    << << 0, 1, 0>>, << 0, -1, 0>>,
       <<-1, 0, 0>>, << 1,  0, 0>>,
       << 0, 0, 1>>, << 0,  0, -1>> >>

\* tex_coord(x, y, n): the corners of a texture square, in units of 1/n.
tex_coord(x, y) ==
    <<x, y, x + 1, y, x + 1, y + 1, x, y + 1>>

tex_coords(top, bottom, side) ==
    LET t == tex_coord(top[1], top[2])
        b == tex_coord(bottom[1], bottom[2])
        s == tex_coord(side[1], side[2])
    IN  <<t, b, s, s, s, s>>

Kinds == {"dirt", "grass_block", "sand", "bricks", "bedrock"}

BLOCKS ==
    [name \in Kinds |->
        CASE name = "dirt"        -> tex_coords(<<0, 1>>, <<0, 1>>, <<0, 1>>)
          [] name = "grass_block" -> tex_coords(<<1, 0>>, <<0, 1>>, <<0, 0>>)
          [] name = "sand"        -> tex_coords(<<1, 1>>, <<1, 1>>, <<1, 1>>)
          [] name = "bricks"      -> tex_coords(<<2, 0>>, <<2, 0>>, <<2, 0>>)
          [] name = "bedrock"     -> tex_coords(<<2, 1>>, <<2, 1>>, <<2, 1>>)]

---------------------------------------------------------------------------
(* Python containers. *)

\* None where a position or a sector is expected.
None == << >>

EmptyDict == << >>

DictSet(d, k, v) ==
    [x \in (DOMAIN d) \cup {k} |-> IF x = k THEN v ELSE d[x]]

DictDel(d, k) ==
    [x \in (DOMAIN d) \ {k} |-> d[x]]

\* Number of occurrences of v in the list l.
Count(l, v) ==
    Cardinality({i \in 1..Len(l) : l[i] = v})

\* list.remove(v): l without its first occurrence of v (v occurs in l).
ListRemove(l, v) ==
    LET i == CHOOSE j \in 1..Len(l) :
                 l[j] = v /\ \A m \in 1..(j - 1) : l[m] # v
    IN  SubSeq(l, 1, i - 1) \o SubSeq(l, i + 1, Len(l))

\* The store with the exception e raised at this point.
Raise(s, e) ==
    [s EXCEPT !.err = e]

---------------------------------------------------------------------------
(* functions.py *)

\* Python's round(n / d) for d > 0: to the nearest integer, a tie to the even one.
round(n, d) ==
    LET q == n \div d
        r == n % d
    IN  IF 2 * r < d THEN q
        ELSE IF 2 * r > d THEN q + 1
        ELSE IF q % 2 = 0 THEN q ELSE q + 1

\* normalize of a position given in units of 1/d of a block.
normalize(position, d) ==
    <<round(position[1], d), round(position[2], d), round(position[3], d)>>

\* sectorize as it would be with a division that rounds toward zero.
sectorize_toward_zero(position, d) ==
    LET np == normalize(position, d)
        quot(n) == IF n >= 0 THEN n \div CHUNK_SIZE
                   ELSE 0 - ((0 - n) \div CHUNK_SIZE)
    IN  <<quot(np[1]), 0, quot(np[3])>>

sectorize(position, d) ==
    LET np == normalize(position, d)
    IN  <<np[1] \div CHUNK_SIZE, 0, np[3] \div CHUNK_SIZE>>

---------------------------------------------------------------------------
(* Model *)

\* Model.__init__, up to the call of generate_terrain.
NewModel ==
    [world   |-> EmptyDict,
     shown   |-> EmptyDict,
     _shown  |-> EmptyDict,
     batch   |-> EmptyBag,
     sectors |-> EmptyDict,
     queue   |-> << >>,
     err     |-> "ok"]

exposed(s, position) ==
    \E i \in 1..Len(FACES) :
        <<position[1] + FACES[i][1],
          position[2] + FACES[i][2],
          position[3] + FACES[i][3]>> \notin DOMAIN s.world

\* The vertex list batch.add returns for a block: its place and textures.
VertexList(position, coords) ==
    <<position, coords>>

_show_block(s, position, coords) ==
    IF s.err # "ok" THEN s
    ELSE LET vl == VertexList(position, coords)
         IN  [s EXCEPT !._shown = DictSet(@, position, vl),
                       !.batch  = @ (+) SetToBag({vl})]

_hide_block(s, position) ==
    IF s.err # "ok" THEN s
    ELSE IF position \notin DOMAIN s._shown THEN Raise(s, "KeyError")
    ELSE [s EXCEPT !._shown = DictDel(@, position),
                   !.batch  = @ (-) SetToBag({s._shown[position]})]

\* _enqueue as it would be with appendleft() in place of append().
_enqueue_left(s, func, args) ==
    IF s.err # "ok" THEN s
    ELSE [s EXCEPT !.queue = <<[func |-> func, args |-> args]>> \o @]

_enqueue(s, func, args) ==
    IF s.err # "ok" THEN s
    ELSE [s EXCEPT !.queue = Append(@, [func |-> func, args |-> args])]

\* show_block as it would be if showing a position that is not in world were
\* allowed: the call returns and nothing is raised.
show_block_quiet(s, position, immediate) ==
    IF s.err # "ok" THEN s
    ELSE IF position \notin DOMAIN s.world THEN s
    ELSE IF immediate
         THEN _show_block(
                [s EXCEPT !.shown = DictSet(@, position, BLOCKS[s.world[position]])],
                position, BLOCKS[s.world[position]])
         ELSE _enqueue(
                [s EXCEPT !.shown = DictSet(@, position, BLOCKS[s.world[position]])],
                "_show_block", <<position, BLOCKS[s.world[position]]>>)

show_block(s, position, immediate) ==
    IF s.err # "ok" THEN s
    ELSE IF position \notin DOMAIN s.world THEN Raise(s, "KeyError")
    ELSE IF immediate
         THEN _show_block(
                [s EXCEPT !.shown = DictSet(@, position, BLOCKS[s.world[position]])],
                position, BLOCKS[s.world[position]])
         ELSE _enqueue(
                [s EXCEPT !.shown = DictSet(@, position, BLOCKS[s.world[position]])],
                "_show_block", <<position, BLOCKS[s.world[position]]>>)

\* hide_block as it would be if hiding a position that is not shown were
\* allowed: the call returns and nothing is raised.
hide_block_quiet(s, position, immediate) ==
    IF s.err # "ok" THEN s
    ELSE IF position \notin DOMAIN s.shown THEN s
    ELSE IF immediate
         THEN _hide_block([s EXCEPT !.shown = DictDel(@, position)], position)
         ELSE _enqueue([s EXCEPT !.shown = DictDel(@, position)],
                       "_hide_block", <<position>>)

hide_block(s, position, immediate) ==
    IF s.err # "ok" THEN s
    ELSE IF position \notin DOMAIN s.shown THEN Raise(s, "KeyError")
    ELSE IF immediate
         THEN _hide_block([s EXCEPT !.shown = DictDel(@, position)], position)
         ELSE _enqueue([s EXCEPT !.shown = DictDel(@, position)],
                       "_hide_block", <<position>>)

\* (x + dx, y + dy, z + dz) for the face FACES[i].
Neighbor(position, i) ==
    <<position[1] + FACES[i][1],
      position[2] + FACES[i][2],
      position[3] + FACES[i][3]>>

\* check_neighbor as it would be without its else branch: a neighbour that
\* is no longer exposed stays shown.
check_neighbor_show_only(s, key) ==
    IF s.err # "ok" THEN s
    ELSE IF key \notin DOMAIN s.world THEN s
    ELSE IF exposed(s, key) /\ key \notin DOMAIN s.shown
         THEN show_block(s, key, TRUE) ELSE s

\* check_neighbor as it would be without its first branch: a neighbour that
\* has become exposed is not shown.
check_neighbor_hide_only(s, key) ==
    IF s.err # "ok" THEN s
    ELSE IF key \notin DOMAIN s.world THEN s
    ELSE IF ~exposed(s, key) /\ key \in DOMAIN s.shown
         THEN hide_block(s, key, TRUE) ELSE s

\* One turn of the loop of check_neighbors, for the neighbour key.
check_neighbor(s, key) ==
    IF s.err # "ok" THEN s
    ELSE IF key \notin DOMAIN s.world THEN s
    ELSE IF exposed(s, key)
         THEN IF key \notin DOMAIN s.shown
              THEN show_block(s, key, TRUE) ELSE s
         ELSE IF key \in DOMAIN s.shown
              THEN hide_block(s, key, TRUE) ELSE s

RECURSIVE check_neighbors_from(_, _, _)
check_neighbors_from(s, position, i) ==
    IF i > Len(FACES) \/ s.err # "ok" THEN s
    ELSE check_neighbors_from(check_neighbor(s, Neighbor(position, i)),
                              position, i + 1)

check_neighbors(s, position) ==
    check_neighbors_from(s, position, 1)

\* remove_block as it would be without line 156: the bucket keeps the position.
keep_in_sector(s, position, sec) ==
    s

\* self.sectors[sectorize(position)].remove(position)
remove_from_sector(s, position, sec) ==
    IF sec \notin DOMAIN s.sectors THEN Raise(s, "KeyError")
    ELSE IF Count(s.sectors[sec], position) = 0 THEN Raise(s, "ValueError")
    ELSE [s EXCEPT !.sectors[sec] = ListRemove(@, position)]

\* The body of `if immediate:` in remove_block as it would be without the
\* call of check_neighbors.
remove_block_unchecked(s, position) ==
    IF s.err # "ok" THEN s
    ELSE IF position \in DOMAIN s.shown
         THEN hide_block(s, position, TRUE) ELSE s

\* The body of `if immediate:` in remove_block.
remove_block_immediate(s, position) ==
    IF s.err # "ok" THEN s
    ELSE check_neighbors(
            IF position \in DOMAIN s.shown
            THEN hide_block(s, position, TRUE) ELSE s,
            position)

\* remove_block as it would be if removing an absent position were allowed:
\* `self.world.pop(position, None)` and a bucket left alone.
remove_block_quiet(s, position, immediate) ==
    IF s.err # "ok" THEN s
    ELSE IF position \notin DOMAIN s.world
         THEN IF immediate THEN remove_block_immediate(s, position) ELSE s
    ELSE IF immediate
         THEN remove_block_immediate(
                remove_from_sector([s EXCEPT !.world = DictDel(@, position)],
                                   position, sectorize(position, 1)),
                position)
         ELSE remove_from_sector([s EXCEPT !.world = DictDel(@, position)],
                                 position, sectorize(position, 1))

remove_block(s, position, immediate) ==
    IF s.err # "ok" THEN s
    ELSE IF position \notin DOMAIN s.world THEN Raise(s, "KeyError")
    ELSE IF immediate
         THEN remove_block_immediate(
                remove_from_sector([s EXCEPT !.world = DictDel(@, position)],
                                   position, sectorize(position, 1)),
                position)
         ELSE remove_from_sector([s EXCEPT !.world = DictDel(@, position)],
                                 position, sectorize(position, 1))

\* self.world[position] = name, and the append to the sector's bucket.
insert_block(s, position, name, sec) ==
    IF s.err # "ok" THEN s
    ELSE [s EXCEPT
            !.world   = DictSet(@, position, name),
            !.sectors = DictSet(@, sec,
                Append(IF sec \in DOMAIN @ THEN @[sec] ELSE << >>, position))]

\* The body of `if immediate:` in add_block.
add_block_immediate(s, position) ==
    IF s.err # "ok" THEN s
    ELSE check_neighbors(
            IF exposed(s, position)
            THEN show_block(s, position, TRUE) ELSE s,
            position)

\* add_block once a block that was at the position has been removed.
add_block_at_free(s, position, name, immediate) ==
    IF immediate
    THEN add_block_immediate(
            insert_block(s, position, name, sectorize(position, 1)), position)
    ELSE insert_block(s, position, name, sectorize(position, 1))

add_block(s, position, name, immediate) ==
    IF s.err # "ok" THEN s
    ELSE add_block_at_free(
            IF position \in DOMAIN s.world
            THEN remove_block(s, position, immediate) ELSE s,
            position, name, immediate)

\* The turn of show_sector's loop as it would be without the exposed() test.
show_block_unfiltered(s, position) ==
    IF position \notin DOMAIN s.shown
    THEN show_block(s, position, FALSE) ELSE s

\* The turn of show_sector's loop as it would be without the test
\* `position not in self.shown`.
show_block_if_exposed(s, position) ==
    IF exposed(s, position)
    THEN show_block(s, position, FALSE) ELSE s

\* One turn of the loop of show_sector.
show_block_if_hidden(s, position) ==
    IF position \notin DOMAIN s.shown /\ exposed(s, position)
    THEN show_block(s, position, FALSE) ELSE s

\* The turn of hide_sector's loop as it would be hiding at once
\* (immediate=True).
hide_block_at_once(s, position) ==
    IF position \in DOMAIN s.shown
    THEN hide_block(s, position, TRUE) ELSE s

\* One turn of the loop of hide_sector.
hide_block_if_shown(s, position) ==
    IF position \in DOMAIN s.shown
    THEN hide_block(s, position, FALSE) ELSE s

\* The loop of show_sector over the bucket l, from its i-th position on.
RECURSIVE show_sector_from(_, _, _)
show_sector_from(s, l, i) ==
    IF i > Len(l) \/ s.err # "ok" THEN s
    ELSE show_sector_from(show_block_if_hidden(s, l[i]), l, i + 1)

show_sector(s, sector) ==
    IF s.err # "ok" THEN s
    ELSE show_sector_from(s,
            IF sector \in DOMAIN s.sectors THEN s.sectors[sector] ELSE << >>, 1)

RECURSIVE hide_sector_from(_, _, _)
hide_sector_from(s, l, i) ==
    IF i > Len(l) \/ s.err # "ok" THEN s
    ELSE hide_sector_from(hide_block_if_shown(s, l[i]), l, i + 1)

hide_sector(s, sector) ==
    IF s.err # "ok" THEN s
    ELSE hide_sector_from(s,
            IF sector \in DOMAIN s.sectors THEN s.sectors[sector] ELSE << >>, 1)

\* The offsets (dx, 0, dz) change_sectors keeps: those of the padded disc.
SectorOffsets ==
    {d \in ((0 - pad)..pad) \X {0} \X ((0 - pad)..pad) :
        ~(d[1] * d[1] + d[2] * d[2] + d[3] * d[3] > (pad + 1) * (pad + 1))}

\* before_set / after_set of change_sectors: empty for None.
SectorSet(sector) ==
    IF sector = None THEN {}
    ELSE {<<sector[1] + d[1], sector[2] + d[2], sector[3] + d[3]>> :
            d \in SectorOffsets}

\* The populated sectors, in lexicographic order.
RECURSIVE SortedSectors(_)
SortedSectors(S) ==
    IF S = {} THEN << >>
    ELSE LET m == CHOOSE a \in S : \A b \in S :
                      a[1] < b[1] \/ (a[1] = b[1] /\ a[3] <= b[3])
         IN  <<m>> \o SortedSectors(S \ {m})

Reverse(l) ==
    [i \in 1..Len(l) |-> l[Len(l) + 1 - i]]

\* The orders in which a Python set of sectors may be iterated.  Sectors
\* without a bucket are left out: show_sector and hide_sector do nothing there.
IterationOrders(s, S) ==
    LET l == SortedSectors(S \cap DOMAIN s.sectors)
    IN  {l, Reverse(l)}

RECURSIVE show_sectors(_, _, _)
show_sectors(s, l, i) ==
    IF i > Len(l) \/ s.err # "ok" THEN s
    ELSE show_sectors(show_sector(s, l[i]), l, i + 1)

RECURSIVE hide_sectors(_, _, _)
hide_sectors(s, l, i) ==
    IF i > Len(l) \/ s.err # "ok" THEN s
    ELSE hide_sectors(hide_sector(s, l[i]), l, i + 1)

\* change_sectors, its two set iterations running in the orders so and ho.
change_sectors(s, before, after, so, ho) ==
    IF s.err # "ok" THEN s
    ELSE hide_sectors(show_sectors(s, so, 1), ho, 1)

\* hide as it would be without the difference: all of before_set.
SectorSetOfBefore(before, after) == SectorSet(before)

ShowSet(before, after) == SectorSet(after) \ SectorSet(before)

HideSet(before, after) == SectorSet(before) \ SectorSet(after)

\* The call func(*args) of _dequeue.
apply(s, func, args) ==
    IF func = "_show_block"
    THEN _show_block(s, args[1], args[2])
    ELSE _hide_block(s, args[1])

\* _dequeue as it would be with pop() in place of popleft().
_dequeue_right(s) ==
    IF s.err # "ok" THEN s
    ELSE apply([s EXCEPT !.queue = SubSeq(@, 1, Len(@) - 1)],
               s.queue[Len(s.queue)].func, s.queue[Len(s.queue)].args)

\* _dequeue: pop the first call of the queue and make it.
_dequeue(s) ==
    IF s.err # "ok" THEN s
    ELSE apply([s EXCEPT !.queue = Tail(@)],
               Head(s.queue).func, Head(s.queue).args)

\* process_queue as it would be if its loop never ran.
process_nothing(s, n) ==
    s

\* The loop of process_queue when the clock lets it run n more times.
RECURSIVE process_queue(_, _)
process_queue(s, n) ==
    IF s.err # "ok" \/ s.queue = << >> \/ n = 0 THEN s
    ELSE process_queue(_dequeue(s), n - 1)

RECURSIVE process_entire_queue(_)
process_entire_queue(s) ==
    IF s.err # "ok" \/ s.queue = << >> THEN s
    ELSE process_entire_queue(_dequeue(s))

---------------------------------------------------------------------------
(* Window.update, as far as the store goes: `before` is self.sector, `sector`
   the sector of the player's position, n the calls process_queue makes. *)

\* The full drain as it would be made at every change of sector.
update_drain_always(s, before) ==
    process_entire_queue(s)

\* if self.sector is None: self.model.process_entire_queue()
update_drain(s, before) ==
    IF before = None THEN process_entire_queue(s) ELSE s

\* The sector handling as it would be if only the first sector were acted on.
update_sector_once(s, before, sector, so, ho) ==
    IF s.err # "ok" \/ sector = before \/ before # None THEN s
    ELSE update_drain(change_sectors(s, before, sector, so, ho), before)

\* if sector != self.sector: change_sectors, and the full drain.
update_sector(s, before, sector, so, ho) ==
    IF s.err # "ok" \/ sector = before THEN s
    ELSE update_drain(change_sectors(s, before, sector, so, ho), before)

update(s, before, sector, n, so, ho) ==
    update_sector(process_queue(s, n), before, sector, so, ho)

---------------------------------------------------------------------------
(* hit_test.  Positions along the line of sight are in units of 1 / HitSteps
   of a block, so that the step (dx / m, dy / m, dz / m) is the vector. *)

\* The loop of hit_test as it would be without `previous = key`.
RECURSIVE hit_test_keeps_previous(_, _, _, _, _, _)
hit_test_keeps_previous(s, position, vector, previous, k, n) ==
    IF k >= n THEN <<None, None>>
    ELSE IF normalize(position, HitSteps) # previous
            /\ normalize(position, HitSteps) \in DOMAIN s.world
         THEN <<normalize(position, HitSteps), previous>>
         ELSE hit_test_keeps_previous(s,
                <<position[1] + vector[1], position[2] + vector[2],
                  position[3] + vector[3]>>,
                vector, previous, k + 1, n)

\* The loop of hit_test as it would be with `return key, key`.
RECURSIVE hit_test_key_twice(_, _, _, _, _, _)
hit_test_key_twice(s, position, vector, previous, k, n) ==
    IF k >= n THEN <<None, None>>
    ELSE IF normalize(position, HitSteps) # previous
            /\ normalize(position, HitSteps) \in DOMAIN s.world
         THEN <<normalize(position, HitSteps), normalize(position, HitSteps)>>
         ELSE hit_test_key_twice(s,
                <<position[1] + vector[1], position[2] + vector[2],
                  position[3] + vector[3]>>,
                vector, normalize(position, HitSteps), k + 1, n)

\* The loop of hit_test, at its k-th turn of n.
RECURSIVE hit_test_from(_, _, _, _, _, _)
hit_test_from(s, position, vector, previous, k, n) ==
    IF k >= n THEN <<None, None>>
    ELSE IF normalize(position, HitSteps) # previous
            /\ normalize(position, HitSteps) \in DOMAIN s.world
         THEN <<normalize(position, HitSteps), previous>>
         ELSE hit_test_from(s,
                <<position[1] + vector[1], position[2] + vector[2],
                  position[3] + vector[3]>>,
                vector, normalize(position, HitSteps), k + 1, n)

\* hit_test as it would be without the test `key in self.world`.
hit_test_first_key(s, position, vector, max_distance) ==
    IF max_distance * HitSteps > 0
    THEN <<normalize(position, HitSteps), None>>
    ELSE <<None, None>>

hit_test(s, position, vector, max_distance) ==
    hit_test_from(s, position, vector, None, 0, max_distance * HitSteps)

---------------------------------------------------------------------------
(* collide.  A player is the pair of a position p, in tenths of a block, and
   a vertical velocity dy; np is the block the position rounds to. *)

\* The cell next to np through `face`, dy blocks down: op of collide.
collide_op(np, face, i, dy) ==
    [[np EXCEPT ![2] = @ - dy] EXCEPT ![i] = @ + face[i]]

\* The scan of the height slices as it would be looking at slice 0 alone.
collide_hits_first_slice(w, np, face, i, dy, height) ==
    dy < height /\ collide_op(np, face, i, dy) \in DOMAIN w

\* for dy in range(floor(height)): whether a slice from dy on has its cell in
\* world, which is when the loop corrects p and breaks.
RECURSIVE collide_hits(_, _, _, _, _, _)
collide_hits(w, np, face, i, dy, height) ==
    IF dy >= height THEN FALSE
    ELSE IF collide_op(np, face, i, dy) \in DOMAIN w THEN TRUE
         ELSE collide_hits(w, np, face, i, dy + 1, height)

\* One dimension of one face as it would be with no padding (pad = 0).
collide_axis_unpadded(w, pl, np, face, i, height) ==
    IF face[i] = 0 THEN pl
    ELSE IF (pl.p[i] - np[i] * Tenths) * face[i] < 0 THEN pl
    ELSE IF collide_hits(w, np, face, i, 0, height)
         THEN [p |-> [pl.p EXCEPT ![i] =
                        @ - ((pl.p[i] - np[i] * Tenths) * face[i]) * face[i]],
               dy |-> IF face = <<0, -1, 0>> \/ face = <<0, 1, 0>>
                      THEN 0 ELSE pl.dy]
         ELSE pl

\* One dimension i of one face: the body of `for i in range(3)`.
collide_axis(w, pl, np, face, i, height) ==
    IF face[i] = 0 THEN pl
    ELSE IF (pl.p[i] - np[i] * Tenths) * face[i] < collide_pad THEN pl
    ELSE IF collide_hits(w, np, face, i, 0, height)
         THEN [p |-> [pl.p EXCEPT ![i] =
                        @ - ((pl.p[i] - np[i] * Tenths) * face[i] - collide_pad)
                              * face[i]],
               dy |-> IF face = <<0, -1, 0>> \/ face = <<0, 1, 0>>
                      THEN 0 ELSE pl.dy]
         ELSE pl

\* One face: its three dimensions in turn.
collide_face(w, pl, np, face, height) ==
    collide_axis(w,
        collide_axis(w, collide_axis(w, pl, np, face, 1, height),
                     np, face, 2, height),
        np, face, 3, height)

\* for face in FACES, from the f-th face on.
RECURSIVE collide_from(_, _, _, _, _)
collide_from(w, pl, np, f, height) ==
    IF f > Len(FACES) THEN pl
    ELSE collide_from(w, collide_face(w, pl, np, FACES[f], height),
                      np, f + 1, height)

\* collide(position, height) of a player whose vertical velocity is dy, in
\* the world w: the position returned and the velocity left.
collide(w, position, height, dy) ==
    collide_from(w, [p |-> position, dy |-> dy],
                 normalize(position, Tenths), 1, height)

---------------------------------------------------------------------------
(* Window.on_mouse_press, with the mouse captured: hit is the pair
   (block, previous) hit_test has returned, ctrl is modifiers & key.MOD_CTRL,
   name is self.block. *)

\* The left click as it would be without the test `name != 'bedrock'`.
mouse_left_any_kind(s, block) ==
    IF s.err # "ok" \/ block = None THEN s
    ELSE remove_block(s, block, TRUE)

\* elif button == mouse.LEFT and block: ...
mouse_left(s, block) ==
    IF s.err # "ok" \/ block = None THEN s
    ELSE IF s.world[block] # "bedrock" THEN remove_block(s, block, TRUE)
    ELSE s

\* if previous: self.model.add_block(previous, self.block)
mouse_right(s, hit, name) ==
    IF s.err # "ok" \/ hit[2] = None THEN s
    ELSE add_block(s, hit[2], name, TRUE)

on_mouse_press(s, hit, button, ctrl, name) ==
    IF button = "RIGHT" \/ (button = "LEFT" /\ ctrl)
    THEN mouse_right(s, hit, name)
    ELSE IF button = "LEFT" THEN mouse_left(s, hit[1])
    ELSE s

---------------------------------------------------------------------------
(* Terrain *)

Heights == (0 - MaxDepth)..MaxHeight

Columns == ((0 - TerrainN)..TerrainN) \X ((0 - TerrainN)..TerrainN)

\* The height maps the three noise layers are taken to produce: the level ones.
HeightMaps ==
    {[c \in Columns |-> y] : y \in Heights}

\* The columns in the order of the two loops of generate_terrain.
ColumnSeq ==
    LET w == 2 * TerrainN + 1
    IN  [i \in 1..(w * w) |->
            <<((i - 1) \div w) - TerrainN, ((i - 1) % w) - TerrainN>>]

\* The dirt blocks of a column: for _y in range(1, y).
RECURSIVE add_dirt(_, _, _, _, _)
add_dirt(s, x, z, _y, y) ==
    IF _y >= y \/ s.err # "ok" THEN s
    ELSE add_dirt(add_block(s, <<x, _y, z>>, "dirt", FALSE), x, z, _y + 1, y)

add_column(s, x, z, y) ==
    add_block(
        add_dirt(add_block(s, <<x, 0, z>>, "bedrock", FALSE), x, z, 1, y),
        <<x, y, z>>, "grass_block", FALSE)

RECURSIVE generate_columns(_, _, _)
generate_columns(s, h, i) ==
    IF i > Len(ColumnSeq) \/ s.err # "ok" THEN s
    ELSE generate_columns(
            add_column(s, ColumnSeq[i][1], ColumnSeq[i][2], h[ColumnSeq[i]]),
            h, i + 1)

\* The loops of generate_terrain as they would be counting down.
RECURSIVE generate_columns_down(_, _, _)
generate_columns_down(s, h, i) ==
    IF i < 1 \/ s.err # "ok" THEN s
    ELSE generate_columns_down(
            add_column(s, ColumnSeq[i][1], ColumnSeq[i][2], h[ColumnSeq[i]]),
            h, i - 1)

generate_terrain_down(s, h) ==
    generate_columns_down(s, h, Len(ColumnSeq))

\* generate_terrain with the noise giving the height map h.
generate_terrain(s, h) ==
    generate_columns(s, h, 1)

\* Height maps that are not level: the noise gives one height to the column
\* of the player, one to its two neighbours along z, and one to the others.
RoughHeightMaps ==
    {[c \in Columns |-> IF c = <<0, 0>> THEN a
                        ELSE IF c[1] = 0 THEN b ELSE d] :
        a \in Heights, b \in Heights, d \in Heights}

---------------------------------------------------------------------------
(* The spawn search of Window.__init__: pl is the pair of self.position and
   spawny, with `done` once the loop is left and the last assignment made. *)

\* The spawn search as it would be with its last assignment two blocks lower.
spawn_step_below(w, pl) ==
    IF pl.position \in DOMAIN w
    THEN [position |-> <<0, pl.spawny, 0>>, spawny |-> pl.spawny + 1,
          done |-> FALSE]
    ELSE [position |-> <<0, pl.spawny - 2, 0>>, spawny |-> pl.spawny,
          done |-> TRUE]

\* One test of `while self.position in self.model.world`, with the body of
\* the loop or, when the loop is left, the assignment that follows it.
spawn_step(w, pl) ==
    IF pl.position \in DOMAIN w
    THEN [position |-> <<0, pl.spawny, 0>>, spawny |-> pl.spawny + 1,
          done |-> FALSE]
    ELSE [position |-> <<0, pl.spawny, 0>>, spawny |-> pl.spawny,
          done |-> TRUE]

---------------------------------------------------------------------------
(* The calls made on the store. *)

\* The positions edited, the names placed and the sectors walked.
EditPositions == {<<0, 1, 0>>, <<0, 2, 0>>}

EditNames == {"sand"}

WalkSectors == {<<0, 0, 0>>, <<4, 0, 0>>}

BucketSectors == {<<0, 0, 0>>, <<-1, 0, 0>>}

Store ==
    [world |-> world, shown |-> shown, _shown |-> _shown, batch |-> batch,
     sectors |-> sectors, queue |-> queue, err |-> err]

\* A call and what held of its position when it was made.
Call(op, position, name, immediate) ==
    [op |-> op, position |-> position, name |-> name, immediate |-> immediate,
     in_world |-> position \in DOMAIN world,
     in_shown |-> position \in DOMAIN shown]

\* The step that makes `call` and leaves the store as s.
Becomes(s, call) ==
    /\ at_sector' = IF call.op = "change_sectors"
                    THEN call.position[2] ELSE at_sector
    /\ world' = s.world
    /\ shown' = s.shown
    /\ _shown' = s._shown
    /\ batch' = s.batch
    /\ sectors' = s.sectors
    /\ queue' = s.queue
    /\ err' = s.err
    /\ last' = call
    /\ steps' = steps + 1
    /\ pc' = "run"

Ready ==
    pc = "run" /\ err = "ok" /\ steps < MaxOps

Init ==
    /\ world = NewModel.world
    /\ shown = NewModel.shown
    /\ _shown = NewModel._shown
    /\ batch = NewModel.batch
    /\ sectors = NewModel.sectors
    /\ queue = NewModel.queue
    /\ err = NewModel.err
    /\ at_sector = None
    /\ pc = "new"
    /\ steps = 0
    /\ last = [op |-> "Model", position |-> None, name |-> "",
               immediate |-> FALSE, in_world |-> FALSE, in_shown |-> FALSE]

GenerateTerrain ==
    /\ pc = "new"
    /\ \E h \in HeightMaps :
          \E s \in {generate_terrain(Store, h)} :
             /\ world' = s.world
             /\ sectors' = s.sectors
             /\ err' = s.err
    /\ pc' = "run"
    /\ last' = Call("generate_terrain", None, "", FALSE)
    /\ UNCHANGED <<shown, _shown, batch, queue, at_sector, steps>>

AddBlock ==
    /\ Ready
    /\ \E p \in EditPositions, name \in EditNames, immediate \in BOOLEAN :
          Becomes(add_block(Store, p, name, immediate),
                  Call("add_block", p, name, immediate))

RemoveBlock ==
    /\ Ready
    /\ \E p \in EditPositions, immediate \in BOOLEAN :
          Becomes(remove_block(Store, p, immediate),
                  Call("remove_block", p, "", immediate))

ShowSector ==
    /\ Ready
    /\ \E sector \in BucketSectors :
          Becomes(show_sector(Store, sector),
                  Call("show_sector", sector, "", FALSE))

HideSector ==
    /\ Ready
    /\ \E sector \in BucketSectors :
          Becomes(hide_sector(Store, sector),
                  Call("hide_sector", sector, "", FALSE))

ChangeSectors ==
    /\ Ready
    /\ \E before \in {at_sector}, after \in WalkSectors :
          /\ before # after
          /\ \E so \in IterationOrders(Store, ShowSet(before, after)),
                ho \in IterationOrders(Store, HideSet(before, after)) :
                Becomes(change_sectors(Store, before, after, so, ho),
                        Call("change_sectors", <<before, after>>, "", FALSE))

ProcessQueue ==
    /\ Ready
    /\ \E n \in 1..MaxBurst :
          /\ n <= Len(queue)
          /\ Becomes(process_queue(Store, n),
                     Call("process_queue", <<n>>, "", FALSE))

ProcessEntireQueue ==
    /\ Ready
    /\ queue # << >>
    /\ Becomes(process_entire_queue(Store),
               Call("process_entire_queue", None, "", FALSE))

\* show_block and hide_block called from outside the store.
ShowBlock ==
    /\ Ready
    /\ \E p \in EditPositions, immediate \in BOOLEAN :
          Becomes(show_block(Store, p, immediate),
                  Call("show_block", p, "", immediate))

HideBlock ==
    /\ Ready
    /\ \E p \in EditPositions, immediate \in BOOLEAN :
          Becomes(hide_block(Store, p, immediate),
                  Call("hide_block", p, "", immediate))

Next ==
    \/ GenerateTerrain
    \/ AddBlock
    \/ RemoveBlock
    \/ ShowSector
    \/ HideSector
    \/ ChangeSectors
    \/ ProcessQueue
    \/ ProcessEntireQueue

Spec == Init /\ [][Next]_vars

\* The store with show_block and hide_block called directly as well.
NextCalls ==
    \/ GenerateTerrain
    \/ ShowBlock
    \/ HideBlock
    \/ RemoveBlock
    \/ ProcessQueue

SpecCalls == Init /\ [][NextCalls]_vars

\* Where a line of sight starts, in units of 1 / HitSteps of a block: above
\* the middle column at heights 2.5 and 1.5, and beside it at height 1.5.
SightOrigins == {<<0, 20, 0>>, <<0, 12, 0>>, <<-12, 12, 0>>}

\* Where a line of sight points: down, up, along x, and down along x.
SightVectors == {<<0, -1, 0>>, <<0, 1, 0>>, <<1, 0, 0>>, <<1, -1, 0>>}

\* hit_test on the store as it stands, the empty world of a Model that has
\* no terrain yet included.  It assigns to no attribute of the Model.
HitTest ==
    /\ err = "ok"
    /\ \E position \in SightOrigins, vector \in SightVectors,
          max_distance \in 0..MaxDistance :
          last' = [op |-> "hit_test",
                   position |-> <<position, vector, max_distance>>,
                   name |-> "", immediate |-> FALSE,
                   in_world |-> FALSE, in_shown |-> FALSE,
                   result |-> hit_test(Store, position, vector, max_distance)]
    /\ UNCHANGED <<world, shown, _shown, batch, sectors, queue, err,
                   at_sector, pc, steps>>

\* The store as blocks are dug out of it, with lines of sight cast into it.
NextSight ==
    \/ GenerateTerrain
    \/ RemoveBlock
    \/ HitTest

SpecSight == Init /\ [][NextSight]_vars

\* Where collide finds the player, in tenths of a block: on or next to the
\* middle column, between heights 0.8 and 2.4.
CollidePositions ==
    {<<x, y, z>> : x \in {-4, 0, 3}, y \in {8, 11, 13, 17, 24}, z \in {0, 3}}

\* The heights of a player, and the vertical velocities, collide is called at.
CollideHeights == {1, 2}

CollideSpeeds == {-3, 0}

\* collide on the world as it stands.  It assigns to self.dy and to nothing
\* of the Model.
Collide ==
    /\ err = "ok"
    /\ pc = "run"
    /\ \E position \in CollidePositions, height \in CollideHeights,
          dy \in CollideSpeeds :
          last' = [op |-> "collide",
                   position |-> <<position, height, dy>>,
                   name |-> "", immediate |-> FALSE,
                   in_world |-> FALSE, in_shown |-> FALSE,
                   result |-> collide(world, position, height, dy)]
    /\ UNCHANGED <<world, shown, _shown, batch, sectors, queue, err,
                   at_sector, pc, steps>>

\* The world as blocks are dug out of it, with a player colliding with it.
NextCollide ==
    \/ GenerateTerrain
    \/ RemoveBlock
    \/ Collide

SpecCollide == Init /\ [][NextCollide]_vars

\* A game tick, whole: Window.update with the player in `sector`.  The
\* time-boxed drain makes at least one call when calls are pending; an
\* exception leaves self.sector as it was and ends the game loop.
Update ==
    /\ Ready
    /\ \E sector \in WalkSectors, n \in 0..MaxBurst :
          /\ n <= Len(queue)
          /\ (n = 0) = (queue = << >>)
          /\ \E so \in IterationOrders(Store, ShowSet(at_sector, sector)),
                ho \in IterationOrders(Store, HideSet(at_sector, sector)) :
                \E s \in {update(Store, at_sector, sector, n, so, ho)} :
                   /\ world' = s.world
                   /\ shown' = s.shown
                   /\ _shown' = s._shown
                   /\ batch' = s.batch
                   /\ sectors' = s.sectors
                   /\ queue' = s.queue
                   /\ err' = s.err
                   /\ at_sector' = IF s.err = "ok" THEN sector ELSE at_sector
          /\ last' = [op |-> "update", position |-> <<n, at_sector, sector>>,
                      name |-> "", immediate |-> FALSE,
                      in_world |-> FALSE, in_shown |-> FALSE]
    /\ steps' = steps + 1
    /\ UNCHANGED pc

\* The game with a player that walks and edits nothing.
NextUpdate ==
    \/ GenerateTerrain
    \/ Update

SpecUpdate == Init /\ [][NextUpdate]_vars

\* The store with its world left as generated: sectors shown and hidden,
\* and the queue drained in part or in full.
NextSectors ==
    \/ GenerateTerrain
    \/ ShowSector
    \/ HideSector
    \/ ChangeSectors
    \/ ProcessQueue
    \/ ProcessEntireQueue

SpecSectors == Init /\ [][NextSectors]_vars

\* The mouse buttons, and the block the player holds when pressing one
\* (self.block as Window.__init__ leaves it).
Buttons == {"LEFT", "MIDDLE", "RIGHT"}

HeldBlocks == {"dirt"}

\* Where the player stands at a mouse press, in units of 1 / HitSteps of a
\* block, and where the player looks: down, along x, and down along x.
MouseOrigins == {<<0, 20, 0>>, <<0, 12, 0>>}

MouseVectors == {<<0, -1, 0>>, <<1, 0, 0>>, <<1, -1, 0>>}

\* A mouse press with the mouse captured, the player standing at `position`
\* and looking along `vector`.  (A press with the mouse free only captures
\* the mouse.)
MousePress ==
    /\ pc = "run"
    /\ err = "ok"
    /\ steps < MaxPresses
    /\ \E position \in MouseOrigins, vector \in MouseVectors,
          button \in Buttons, ctrl \in BOOLEAN, name \in HeldBlocks :
          \E hit \in {hit_test(Store, position, vector, SightDistance)} :
             \E s \in {on_mouse_press(Store, hit, button, ctrl, name)} :
                /\ world' = s.world
                /\ shown' = s.shown
                /\ _shown' = s._shown
                /\ batch' = s.batch
                /\ sectors' = s.sectors
                /\ queue' = s.queue
                /\ err' = s.err
                /\ last' = [op |-> "on_mouse_press",
                            position |-> <<position, vector>>,
                            name |-> name, immediate |-> TRUE,
                            in_world |-> FALSE, in_shown |-> FALSE,
                            button |-> button, ctrl |-> ctrl, result |-> hit]
    /\ steps' = steps + 1
    /\ UNCHANGED <<at_sector, pc>>

\* The world under the player's mouse.
NextMouse ==
    \/ GenerateTerrain
    \/ MousePress

SpecMouse == Init /\ [][NextMouse]_vars

\* Model() with a terrain that is not level.
GenerateRoughTerrain ==
    /\ pc = "new"
    /\ \E h \in RoughHeightMaps :
          \E s \in {generate_terrain(Store, h)} :
             /\ world' = s.world
             /\ sectors' = s.sectors
             /\ err' = s.err
    /\ pc' = "run"
    /\ last' = Call("generate_terrain", None, "", FALSE)
    /\ UNCHANGED <<shown, _shown, batch, queue, at_sector, steps>>

\* The search of Window.__init__ as a call record: where it is.
Spawn(pl) ==
    [op |-> "spawn", position |-> pl.position, name |-> "",
     immediate |-> FALSE, in_world |-> FALSE, in_shown |-> FALSE,
     spawny |-> pl.spawny, done |-> pl.done]

\* spawny = 1; self.position = (0, 1, 0)
SpawnStart ==
    /\ pc = "run"
    /\ err = "ok"
    /\ last.op = "generate_terrain"
    /\ last' = Spawn([position |-> <<0, 1, 0>>, spawny |-> 1, done |-> FALSE])
    /\ UNCHANGED <<world, shown, _shown, batch, sectors, queue, err,
                   at_sector, pc, steps>>

SpawnStep ==
    /\ last.op = "spawn"
    /\ ~last.done
    /\ last' = Spawn(spawn_step(world, last))
    /\ UNCHANGED <<world, shown, _shown, batch, sectors, queue, err,
                   at_sector, pc, steps>>

\* Window.__init__ up to the spawn of the player.
NextSpawn ==
    \/ GenerateRoughTerrain
    \/ SpawnStart
    \/ SpawnStep

\* The statements of the search run one after the other; none waits.
SpecSpawn ==
    Init /\ [][NextSpawn]_vars /\ WF_vars(SpawnStart) /\ WF_vars(SpawnStep)

---------------------------------------------------------------------------
(* What the properties speak of. *)

\* The names a player can place (Window.inventory).
Inventory == {"dirt", "grass_block", "sand", "bricks"}

Range(l) == {l[i] : i \in 1..Len(l)}

\* The positions of each bucket, whatever their order in it.
Membership(s) ==
    [sec \in DOMAIN s.sectors |-> Range(s.sectors[sec])]

\* The positions face-adjacent to p.
Neighbors(p) == {Neighbor(p, i) : i \in 1..Len(FACES)}

\* The number of live vertex lists of the batch b drawn at position p.
RECURSIVE CopiesAt(_, _, _)
CopiesAt(b, p, names) ==
    IF names = {} THEN 0
    ELSE LET n == CHOOSE n \in names : TRUE
         IN  CopiesIn(VertexList(p, BLOCKS[n]), b) + CopiesAt(b, p, names \ {n})

HandlesAt(s, p) == CopiesAt(s.batch, p, Kinds)

Running == pc = "run" /\ err = "ok"

---------------------------------------------------------------------------
(* C1 *)

---------------------------------------------------------------------------
(* C2 *)

\* C2: in every reachable state every key of shown is a key of world.
C2_ShownSubsetOfWorld ==
    DOMAIN shown \subseteq DOMAIN world

---------------------------------------------------------------------------
(* C3 *)

\* C3: every position of world occurs exactly once across the buckets, in
\* the bucket of its sector, and no bucket holds a position absent from world.
C3_SectorsPartitionWorld ==
    /\ \A p \in DOMAIN world :
          /\ sectorize(p, 1) \in DOMAIN sectors
          /\ p \in Range(sectors[sectorize(p, 1)])
    /\ \A sec \in DOMAIN sectors :
          /\ Cardinality(Range(sectors[sec])) = Len(sectors[sec])
          /\ \A p \in Range(sectors[sec]) :
                p \in DOMAIN world /\ sectorize(p, 1) = sec

\* add_block has replaced the block of an occupied position while another
\* position of the same column is free.
C3_Witness ==
    /\ last.op = "add_block"
    /\ last.in_world
    /\ err = "ok"
    /\ world[last.position] = last.name
    /\ \E p \in EditPositions : p \notin DOMAIN world

(* C4 *)

\* C4: whenever the queue is empty the positions holding a handle are the
\* keys of shown, and every live vertex list is the one handle _shown holds
\* for its position: none was overwritten while live, none exists twice.
C4_HandlesFollowShown ==
    /\ queue = << >> => DOMAIN _shown = DOMAIN shown
    /\ \A vl \in BagToSet(batch) :
          /\ CopiesIn(vl, batch) = 1
          /\ vl[1] \in DOMAIN _shown
          /\ _shown[vl[1]] = vl

---------------------------------------------------------------------------
(* C5 *)

\* C5: from any store, add_block(p, k1) followed by add_block(p, k2), both
\* immediate, returns with world[p] = k2, p once in the bucket of its sector
\* and at most one live vertex list at p.
C5_AddReplaces ==
    Running =>
        \A p \in EditPositions, k1 \in Inventory, k2 \in Inventory :
            LET s2 == add_block(add_block(Store, p, k1, TRUE), p, k2, TRUE)
            IN  /\ s2.err = "ok"
                /\ s2.world[p] = k2
                /\ Count(s2.sectors[sectorize(p, 1)], p) = 1
                /\ HandlesAt(s2, p) <= 1

---------------------------------------------------------------------------
(* C6 *)

\* C6: add_block(p, kind, immediate=False) returns with p in world and in
\* the bucket of its sector and, when p is exposed, with a show of p appended
\* to the queue.
C6_DeferredAddEnqueuesShow ==
    (last.op = "add_block" /\ ~last.immediate /\ err = "ok") =>
        /\ last.position \in DOMAIN world
        /\ Count(sectors[sectorize(last.position, 1)], last.position) = 1
        /\ exposed(Store, last.position) =>
              /\ queue # << >>
              /\ queue[Len(queue)] =
                    [func |-> "_show_block",
                     args |-> <<last.position, BLOCKS[last.name]>>]

---------------------------------------------------------------------------
(* C7 *)

\* C7: remove_block(p, immediate) with p absent from world raises, and world,
\* sectors, shown, the handles, the batch and the queue are as before the call.
C7_RemoveAbsentRaises ==
    /\ Running =>
          \A p \in EditPositions \ DOMAIN world, immediate \in BOOLEAN :
              remove_block(Store, p, immediate)
                  = [Store EXCEPT !.err = "KeyError"]
    /\ (last.op = "remove_block" /\ ~last.in_world) => err = "KeyError"

\* remove_block of an absent position has raised in a store that has blocks,
\* shown blocks and a pending queue.
C7_Witness ==
    /\ last.op = "remove_block"
    /\ ~last.in_world
    /\ err = "KeyError"
    /\ DOMAIN world # {}
    /\ DOMAIN shown # {}
    /\ queue # << >>

---------------------------------------------------------------------------
(* C8 *)

\* C8: hide_block(p, immediate) with p not in shown raises, and world,
\* sectors, shown, the handles, the batch and the queue are as before the
\* call: nothing is enqueued.
C8_HideHiddenRaises ==
    /\ Running =>
          \A p \in EditPositions \ DOMAIN shown, immediate \in BOOLEAN :
              hide_block(Store, p, immediate)
                  = [Store EXCEPT !.err = "KeyError"]
    /\ (last.op = "hide_block" /\ ~last.in_shown) => err = "KeyError"

\* hide_block of a block of world that is not shown has raised, deferred,
\* in a store with shown blocks and a pending queue.
C8_Witness ==
    /\ last.op = "hide_block"
    /\ ~last.immediate
    /\ ~last.in_shown
    /\ last.in_world
    /\ err = "KeyError"
    /\ DOMAIN shown # {}
    /\ queue # << >>

---------------------------------------------------------------------------
(* C9 *)

\* C9: show_block(p) with p already in shown raises, and so does a queued
\* show executed for a position that holds a handle: no second live vertex
\* list is created for p.
C9_DoubleShowRaises ==
    /\ (last.op = "show_block" /\ last.in_shown) => err # "ok"
    /\ Running =>
          \A n \in 1..Len(queue) :
              (/\ queue[n].func = "_show_block"
               /\ queue[n].args[1] \in DOMAIN process_queue(Store, n - 1)._shown
               /\ process_queue(Store, n - 1).err = "ok")
              => process_queue(Store, n).err # "ok"

---------------------------------------------------------------------------
(* C10 *)

\* remove_block(p) followed by add_block(p, k), k the kind p held.
RoundTrip(s, p) ==
    add_block(remove_block(s, p, TRUE), p, s.world[p], TRUE)

\* p and the blocks face-adjacent to p are shown iff they are exposed.
LocalSkin(s, p) ==
    \A q \in ({p} \cup Neighbors(p)) \cap DOMAIN s.world :
        q \in DOMAIN s.shown <=> exposed(s, q)

---------------------------------------------------------------------------
(* C11 *)

\* The (before, after) pairs change_sectors is called with.
SectorPairs ==
    {c \in ({None} \cup WalkSectors) \X WalkSectors : c[1] # c[2]}

\* show and hide of change_sectors for each of these pairs.
PairShow == [c \in SectorPairs |-> ShowSet(c[1], c[2])]

PairHide == [c \in SectorPairs |-> HideSet(c[1], c[2])]

\* C11: from every reachable store and for every (before, after), a second
\* change_sectors(before, after) right after the first leaves the store as
\* the first left it: shown is unchanged and nothing more is enqueued,
\* whatever the orders the first call iterates its sets in.  (The queue only
\* grows during a call, so a second call that changes the store in one
\* order changes it in every order.)
C11_ChangeSectorsIdempotent ==
    [](Running =>
        \A c \in SectorPairs :
            \A so \in IterationOrders(Store, PairShow[c]),
               ho \in IterationOrders(Store, PairHide[c]) :
                LET s1 == change_sectors(Store, c[1], c[2], so, ho)
                IN  change_sectors(s1, c[1], c[2], so, ho) = s1)

\* Shows(c) / Hides(c): a first change_sectors for the pair c puts new
\* positions in shown / takes positions out of shown, and enqueues.
C11_Shows(c) ==
    \E so \in IterationOrders(Store, PairShow[c]) :
        LET s1 == change_sectors(Store, c[1], c[2], so, << >>)
        IN  /\ s1.err = "ok"
            /\ (DOMAIN s1.shown) \ (DOMAIN shown) # {}
            /\ Len(s1.queue) > Len(queue)

C11_Hides(c) ==
    \E ho \in IterationOrders(Store, PairHide[c]) :
        LET s1 == change_sectors(Store, c[1], c[2], << >>, ho)
        IN  /\ s1.err = "ok"
            /\ (DOMAIN shown) \ (DOMAIN s1.shown) # {}
            /\ Len(s1.queue) > Len(queue)

\* A store from which one change_sectors shows blocks and another hides
\* blocks, so that a second call has something it could repeat.
C11_Witness ==
    /\ Running
    /\ \E c \in SectorPairs : C11_Shows(c)
    /\ \E c \in SectorPairs : C11_Hides(c)

---------------------------------------------------------------------------
(* C12 *)

\* N(s): the sectors s + (dx, 0, dz) with |dx| <= pad, |dz| <= pad and
\* dx^2 + dz^2 <= (pad + 1)^2; empty for None.
C12_N(s) ==
    IF s = None THEN {}
    ELSE {<<s[1] + d[1], s[2], s[3] + d[2]>> :
            d \in {e \in ((0 - pad)..pad) \X ((0 - pad)..pad) :
                     e[1] * e[1] + e[2] * e[2] <= (pad + 1) * (pad + 1)}}

\* What a returned change_sectors(b, a) has done to shown and to the queue.
C12_Effect(b, a) ==
    LET show == C12_N(a) \ C12_N(b)
        hide == C12_N(b) \ C12_N(a)
    IN  /\ ShowSet(b, a) = show
        /\ HideSet(b, a) = hide
        /\ \A p \in (DOMAIN world) \cup (DOMAIN shown) \cup (DOMAIN shown') :
              IF p \in DOMAIN world /\ sectorize(p, 1) \in hide
              THEN p \notin DOMAIN shown'
              ELSE IF p \in DOMAIN world /\ sectorize(p, 1) \in show
              THEN p \in DOMAIN shown'
                      <=> (p \in DOMAIN shown \/ exposed(Store, p))
              ELSE p \in DOMAIN shown' <=> p \in DOMAIN shown
        /\ Len(queue') = Len(queue)
              + Cardinality((DOMAIN shown') \ (DOMAIN shown))
              + Cardinality((DOMAIN shown) \ (DOMAIN shown'))

\* C12: change_sectors(before, after) hides exactly the blocks of the sectors
\* of N(before) \ N(after) and shows exactly the exposed blocks of the
\* sectors of N(after) \ N(before); the positions of every other sector are
\* in shown after the call iff they were before it.
C12_ChangeSectorsFrame ==
    [][(last'.op = "change_sectors" /\ err' = "ok")
          => C12_Effect(last'.position[1], last'.position[2])]_vars

\* change_sectors from (0, 0, 0) to (4, 0, 0) has hidden the shown blocks of
\* a sector left behind and kept those of a sector of both neighbourhoods.
C12_Witness ==
    /\ last.op = "change_sectors"
    /\ last.position = << <<0, 0, 0>>, <<4, 0, 0>> >>
    /\ err = "ok"
    /\ \E p \in DOMAIN shown :
          sectorize(p, 1) \in C12_N(<<0, 0, 0>>) \cap C12_N(<<4, 0, 0>>)
    /\ \E i \in 1..Len(queue) :
          /\ queue[i].func = "_hide_block"
          /\ sectorize(queue[i].args[1], 1)
                \in C12_N(<<0, 0, 0>>) \ C12_N(<<4, 0, 0>>)

---------------------------------------------------------------------------
(* C13 *)

\* The calls ops[i], ..., ops[n] made one after the other on the store s.
RECURSIVE C13_Run(_, _, _, _)
C13_Run(s, ops, i, n) ==
    IF i > n \/ s.err # "ok" THEN s
    ELSE C13_Run(apply(s, ops[i].func, ops[i].args), ops, i + 1, n)

\* A drain has made the first n calls of the queue, in their order, and has
\* left the others as they were.
C13_Drained(n) ==
    /\ queue' = SubSeq(queue, n + 1, Len(queue))
    /\ LET s == C13_Run(Store, queue, 1, n)
       IN  /\ _shown' = s._shown
           /\ batch' = s.batch
           /\ err' = s.err
    /\ UNCHANGED <<world, shown, sectors>>

\* C13: the queue is first in, first out.  A call that is not a drain leaves
\* the pending calls in place and appends behind them; a drain makes a prefix
\* of the queue, each call once and in the order of the queue, and leaves the
\* rest in its order; process_entire_queue that returns makes all of them.
C13_QueueIsFifo ==
    [][IF last'.op \in {"process_queue", "process_entire_queue"}
       THEN /\ Len(queue) - Len(queue') \in 1..Len(queue)
            /\ C13_Drained(Len(queue) - Len(queue'))
            /\ (last'.op = "process_queue" /\ err' = "ok")
                  => Len(queue') = Len(queue) - last'.position[1]
            /\ (last'.op = "process_entire_queue" /\ err' = "ok")
                  => queue' = << >>
       ELSE /\ Len(queue') >= Len(queue)
            /\ SubSeq(queue', 1, Len(queue)) = queue]_vars

\* A store whose queue holds a show and, behind it, a hide of the same
\* position, where a drain up to the hide returns and leaves calls pending.
C13_Witness ==
    /\ Running
    /\ \E i \in 1..Len(queue), j \in 1..Len(queue) :
          /\ i < j
          /\ j < Len(queue)
          /\ queue[i].func = "_show_block"
          /\ queue[j].func = "_hide_block"
          /\ queue[i].args[1] = queue[j].args[1]
          /\ process_queue(Store, j).err = "ok"
          /\ queue[j].args[1] \notin DOMAIN process_queue(Store, j)._shown
          /\ queue[j].args[1] \in DOMAIN process_queue(Store, j - 1)._shown

---------------------------------------------------------------------------
(* C14 *)

\* A game tick: Window.update calls process_queue, which makes at least one
\* of the pending calls.  Ticks go on for as long as the game runs, whatever
\* the number of calls made on the store so far; an exception ends the game
\* loop.
Tick ==
    /\ pc = "run"
    /\ err = "ok"
    /\ queue # << >>
    /\ \E n \in 1..MaxBurst :
          /\ n <= Len(queue)
          /\ \E s \in {process_queue(Store, n)} :
                /\ world' = s.world
                /\ shown' = s.shown
                /\ _shown' = s._shown
                /\ batch' = s.batch
                /\ sectors' = s.sectors
                /\ queue' = s.queue
                /\ err' = s.err
          /\ last' = Call("process_queue", <<n>>, "", FALSE)
    /\ UNCHANGED <<at_sector, pc, steps>>

\* The store as Window.update drives it: ticks and changes of sector.
NextTicks ==
    \/ GenerateTerrain
    \/ ChangeSectors
    \/ Tick

SpecTicks == Init /\ [][NextTicks]_vars /\ WF_vars(Tick)

\* C14: under repeated ticks every pending call is made in the end: a queue
\* that is not empty becomes empty, no call having raised.  (By C13 a call
\* leaves the queue only by being made.)
C14_QueueIsDrained ==
    (queue # << >>) ~> (queue = << >> /\ err = "ok")

\* A tick has made calls and left others pending after the last of the
\* other calls on the store.
C14_Witness ==
    /\ last.op = "process_queue"
    /\ steps = MaxOps
    /\ err = "ok"
    /\ queue # << >>

---------------------------------------------------------------------------
(* C15 *)

\* C15: process_entire_queue returns with the queue empty, every pending
\* call made and none enqueued, from every reachable store; here from the
\* store itself and from the store an immediate remove_block leaves.
C15_EntireQueueDrains ==
    Running =>
        /\ process_entire_queue(Store).err = "ok"
        /\ process_entire_queue(Store).queue = << >>
        /\ \A p \in EditPositions \cap DOMAIN world :
              LET s1 == remove_block(Store, p, TRUE)
              IN  s1.err = "ok" =>
                      /\ process_entire_queue(s1).err = "ok"
                      /\ process_entire_queue(s1).queue = << >>

---------------------------------------------------------------------------
(* C16 *)

Abs(n) == IF n < 0 THEN 0 - n ELSE n

\* The steps between positions that share a face: length 1 along one axis.
C16_Units ==
    {d \in (-1..1) \X (-1..1) \X (-1..1) :
        Abs(d[1]) + Abs(d[2]) + Abs(d[3]) = 1}

\* The positions that share a face with p.
C16_Adjacent(p) ==
    {<<p[1] + d[1], p[2] + d[2], p[3] + d[3]>> : d \in C16_Units}

\* C16: exposed(p) is true iff one of the 6 positions that share a face with
\* p is absent from world, whether p is in world or not.  (exposed is a
\* function of the store: it returns a boolean and assigns nothing.)
C16_ExposedIffFreeFace ==
    /\ Cardinality(C16_Units) = 6
    /\ \A p \in (DOMAIN world) \cup EditPositions :
          exposed(Store, p)
              <=> (\E q \in C16_Adjacent(p) : q \notin DOMAIN world)

\* A store with an empty position enclosed by six blocks, so that exposed
\* is false of a position that is not in world, and with exposed blocks.
C16_Witness ==
    /\ Running
    /\ \E p \in EditPositions \ DOMAIN world : ~exposed(Store, p)
    /\ \E q \in DOMAIN world : exposed(Store, q)

---------------------------------------------------------------------------
(* C17 *)

\* C17: hit_test against an empty world returns (None, None) whatever the
\* origin, the direction and the distance, raises nothing, and leaves world,
\* shown, sectors and the queue as they were (in any world).
C17_EmptyWorldHitsNothing ==
    [][last'.op = "hit_test" =>
         /\ UNCHANGED <<world, shown, sectors, queue>>
         /\ err' = "ok"
         /\ (DOMAIN world = {} => last'.result = <<None, None>>)]_vars

\* A line of sight of two blocks was cast into the empty world.
C17_Witness ==
    /\ last.op = "hit_test"
    /\ DOMAIN world = {}
    /\ last.position[3] = MaxDistance
    /\ last.result = <<None, None>>

---------------------------------------------------------------------------
(* C18 *)

\* The block the k-th sample origin + k * direction / 8 rounds to.
C18_Sample(origin, direction, k) ==
    normalize(<<origin[1] + k * direction[1], origin[2] + k * direction[2],
                origin[3] + k * direction[3]>>, HitSteps)

\* The samples of a line of sight that round to a block of world w.
C18_Hits(w, origin, direction, max_distance) ==
    {k \in 0..(max_distance * HitSteps - 1) :
        C18_Sample(origin, direction, k) \in DOMAIN w}

\* What the first such sample gives; the sample before sample 0 is no block.
C18_Expected(w, origin, direction, max_distance) ==
    IF C18_Hits(w, origin, direction, max_distance) = {}
    THEN <<None, None>>
    ELSE LET k == CHOOSE i \in C18_Hits(w, origin, direction, max_distance) :
                    \A j \in C18_Hits(w, origin, direction, max_distance) :
                        i <= j
         IN  <<C18_Sample(origin, direction, k),
               IF k = 0 THEN None ELSE C18_Sample(origin, direction, k - 1)>>

\* hit_test((0, 5, 0), (0, -1, 0), 8) with a single block at (0, 0, 0).
C18_Example ==
    hit_test([NewModel EXCEPT !.world = DictSet(EmptyDict, <<0, 0, 0>>, "dirt")],
             <<0, 5 * HitSteps, 0>>, <<0, -1, 0>>, 8)

\* C18: hit_test returns the block of the first sample k in
\* 0 .. max_distance * 8 - 1 that rounds to a block of world, with the block
\* sample k - 1 rounds to, and (None, None) when no sample does; with a
\* single block at (0, 0, 0), hit_test((0, 5, 0), (0, -1, 0), 8) is
\* ((0, 0, 0), (0, 1, 0)).
C18_HitIsFirstSample ==
    /\ C18_Example = <<(<<0, 0, 0>>), (<<0, 1, 0>>)>>
    /\ last.op = "hit_test" =>
         last.result = C18_Expected(world, last.position[1], last.position[2],
                                    last.position[3])

\* A line of sight met a block after it had crossed another position.
C18_Witness ==
    /\ last.op = "hit_test"
    /\ last.result[1] # None
    /\ last.result[2] # None
    /\ last.result[1] \in DOMAIN world

---------------------------------------------------------------------------
(* C19 *)

\* The column (x, z) of world w is bedrock at 0, dirt from 1 up to H - 1,
\* grass_block at H, and nothing else.
C19_Column(w, x, z, H) ==
    /\ <<x, 0, z>> \in DOMAIN w
    /\ w[<<x, 0, z>>] = "bedrock"
    /\ \A y \in 1..(H - 1) :
          <<x, y, z>> \in DOMAIN w /\ w[<<x, y, z>>] = "dirt"
    /\ <<x, H, z>> \in DOMAIN w
    /\ w[<<x, H, z>>] = "grass_block"
    /\ \A p \in DOMAIN w :
          (p[1] = x /\ p[3] = z) => (p[2] = 0 \/ p[2] = H \/ p[2] \in 1..(H - 1))

\* C19: after terrain generation every column of the region, whatever the
\* height H the noise gave it (H <= 0 included), holds bedrock at y = 0, dirt
\* at every y in [1, H), grass_block at y = H and no other block.
C19_TerrainColumns ==
    last.op = "generate_terrain" =>
        \A h \in HeightMaps :
            world = generate_terrain(NewModel, h).world =>
                \A c \in Columns : C19_Column(world, c[1], c[2], h[c])

---------------------------------------------------------------------------
(* C20 *)

\* The height the noise gave the column c of a generated world w: that of
\* its grass_block.
C20_Height(w, c) ==
    CHOOSE y \in Heights : <<c[1], y, c[2]>> \in DOMAIN w
                           /\ w[<<c[1], y, c[2]>>] = "grass_block"

---------------------------------------------------------------------------
(* C21 *)

\* collide((0, 1.1, 0), 2) with a single block at (0, 0, 0).
C21_Example ==
    collide(DictSet(EmptyDict, <<0, 0, 0>>, "dirt"), <<0, 11, 0>>, 2, 0)

\* C21: collide((0, 1.1, 0), 2) over a single block at (0, 0, 0) returns a
\* position with y >= 1 - 0.2 and with x and z as given; and on an axis where
\* the position is less than pad away from the block it rounds to, collide
\* returns the coordinate it was given.
C21_SmallOverlapIsKept ==
    /\ C21_Example.p[2] >= Tenths - collide_pad
    /\ C21_Example.p[1] = 0
    /\ C21_Example.p[3] = 0
    /\ last.op = "collide" =>
         \A i \in 1..3 :
            LET d == last.position[1][i]
                     - normalize(last.position[1], Tenths)[i] * Tenths
            IN  (d < collide_pad /\ 0 - d < collide_pad)
                    => last.result.p[i] = last.position[1][i]

\* A collision moved the player along one axis and kept another axis, on
\* which the player was off the middle of its block by less than pad.
C21_Witness ==
    /\ last.op = "collide"
    /\ \E i \in 1..3, j \in 1..3 :
          /\ last.result.p[i] # last.position[1][i]
          /\ last.position[1][j] # normalize(last.position[1], Tenths)[j] * Tenths
          /\ last.result.p[j] = last.position[1][j]
          /\ collide_op(normalize(last.position[1], Tenths),
                        [k \in 1..3 |-> IF k = j THEN 1 ELSE 0], j, 0)
                \in DOMAIN world

---------------------------------------------------------------------------
(* C30 *)

\* The sign of the face of axis i whose overlap is at least pad at the
\* position p, and 0 when there is none.
C30_Sign(p, i) ==
    LET d == p[i] - normalize(p, Tenths)[i] * Tenths
    IN  IF d >= collide_pad THEN 1
        ELSE IF 0 - d >= collide_pad THEN -1 ELSE 0

\* The face of axis i and of sign sg.
C30_Face(i, sg) ==
    [k \in 1..3 |-> IF k = i THEN sg ELSE 0]

\* Some height slice 0 .. height - 1 has a block of w next to the block of p
\* through the face of axis i whose overlap is at least pad.
C30_Collides(w, p, i, height) ==
    /\ C30_Sign(p, i) # 0
    /\ \E dy \in 0..(height - 1) :
          [[normalize(p, Tenths) EXCEPT ![2] = @ - dy]
              EXCEPT ![i] = @ + C30_Sign(p, i)] \in DOMAIN w

\* C30: for each face whose overlap along its axis is at least pad, collide
\* scans the height slices 0 .. floor(height) - 1 and, if one has its
\* neighbouring cell in world, moves the coordinate of that axis back to the
\* rounded coordinate plus pad times the sign of the face, once; a coordinate
\* with no such face or no such cell is returned as given; the vertical
\* velocity becomes 0 exactly when a face +Y or -Y collides; the world is not
\* modified.
C30_CollideCorrects ==
    [][last'.op = "collide" =>
         LET p == last'.position[1]
             height == last'.position[2]
         IN  /\ \A i \in 1..3 :
                   last'.result.p[i] =
                       IF C30_Collides(world, p, i, height)
                       THEN normalize(p, Tenths)[i] * Tenths
                            + collide_pad * C30_Sign(p, i)
                       ELSE p[i]
             /\ last'.result.dy =
                   IF C30_Collides(world, p, 2, height) THEN 0
                   ELSE last'.position[3]
             /\ UNCHANGED <<world, shown, sectors, queue>>]_vars

\* A falling player of height 2 met a block at the second slice alone, on a
\* side face, and a block under it: the position was corrected on two axes
\* and the fall stopped.
C30_Witness ==
    /\ last.op = "collide"
    /\ last.position[2] = 2
    /\ last.position[3] # 0
    /\ last.result.dy = 0
    /\ \E i \in {1, 3} :
          /\ last.result.p[i] # last.position[1][i]
          /\ [normalize(last.position[1], Tenths)
                 EXCEPT ![i] = @ + C30_Sign(last.position[1], i)]
                \notin DOMAIN world

---------------------------------------------------------------------------
(* C22 *)

\* The store s has returned with shown being exactly the exposed positions of
\* world, each of them holding one handle, and no other handle alive.
C22_Skin(s) ==
    /\ s.err = "ok"
    /\ DOMAIN s.shown \subseteq DOMAIN s.world
    /\ \A q \in DOMAIN s.world : q \in DOMAIN s.shown <=> exposed(s, q)
    /\ DOMAIN s._shown = DOMAIN s.shown
    /\ \A vl \in BagToSet(s.batch) :
          /\ CopiesIn(vl, s.batch) = 1
          /\ vl[1] \in DOMAIN s._shown
          /\ s._shown[vl[1]] = vl

\* C22: from a store with an empty queue whose shown is exactly the exposed
\* positions of world, each with one handle, add_block(p, kind) on a free or
\* an occupied p and remove_block(p) on an occupied p, both immediate, return
\* with shown again exactly the exposed positions of world and with the
\* handles on exactly the keys of shown.
C22_ImmediateEditsKeepSkin ==
    []((Running /\ queue = << >> /\ C22_Skin(Store)) =>
          /\ \A p \in EditPositions, kind \in Inventory :
                C22_Skin(add_block(Store, p, kind, TRUE))
          /\ \A p \in EditPositions \cap DOMAIN world :
                C22_Skin(remove_block(Store, p, TRUE)))

\* A store with blocks, an empty queue and exactly its exposed positions
\* shown, where placing a block on a free position encloses a shown block,
\* which the edit has to hide.
C22_Witness ==
    /\ Running
    /\ queue = << >>
    /\ C22_Skin(Store)
    /\ \E p \in EditPositions \ DOMAIN world :
          \E q \in DOMAIN shown :
              q \notin DOMAIN add_block(Store, p, "sand", TRUE).shown

---------------------------------------------------------------------------
(* C23 *)

\* What check_neighbors(p) has done when it took the store s to s2.
C23_Effect(s, s2, p) ==
    /\ \A q \in Neighbors(p) \cap DOMAIN s2.world :
          q \in DOMAIN s2.shown <=> exposed(s2, q)
    /\ s2.world = s.world
    /\ s2.sectors = s.sectors
    /\ \A q \in ((DOMAIN s.shown) \cup (DOMAIN s2.shown) \cup {p})
                    \ Neighbors(p) :
          q \in DOMAIN s2.shown <=> q \in DOMAIN s.shown

\* C23: when check_neighbors(p) returns, each face-adjacent position of p
\* that is in world is in shown iff it is exposed; world and sectors are as
\* before, and so is the shown membership of p and of every position that is
\* not face-adjacent to p.
C23_CheckNeighborsSettles ==
    [](Running =>
          \A p \in EditPositions :
              check_neighbors(Store, p).err = "ok"
                  => C23_Effect(Store, check_neighbors(Store, p), p))

\* A store where check_neighbors(p) returns having hidden a neighbour of p
\* that was shown and is enclosed.
C23_Witness ==
    /\ Running
    /\ \E p \in EditPositions :
          /\ check_neighbors(Store, p).err = "ok"
          /\ \E q \in Neighbors(p) \cap DOMAIN shown :
                q \notin DOMAIN check_neighbors(Store, p).shown

---------------------------------------------------------------------------
(* C24 *)

\* The positions of the bucket of `sector` in the store before the step.
C24_Bucket(sector) ==
    IF sector \in DOMAIN sectors THEN Range(sectors[sector]) ELSE {}

\* The step has appended to the queue one call of func for each position of
\* P, and nothing else.
C24_Enqueued(func, P) ==
    /\ Len(queue') = Len(queue) + Cardinality(P)
    /\ SubSeq(queue', 1, Len(queue)) = queue
    /\ \A i \in (Len(queue) + 1)..Len(queue') :
          queue'[i].func = func /\ queue'[i].args[1] \in P
    /\ \A q \in P :
          \E i \in (Len(queue) + 1)..Len(queue') : queue'[i].args[1] = q

\* C24: show_sector(s) adds to shown exactly the positions of bucket s that
\* are exposed and not shown, hide_sector(s) removes from shown exactly the
\* positions of bucket s that are shown; each appends one call per affected
\* position to the queue, leaves every handle alone, and leaves world,
\* sectors and the entries of shown of all other positions as they were.
C24_SectorCallsAreDeferred ==
    [][last'.op \in {"show_sector", "hide_sector"} =>
         /\ err' = "ok"
         /\ UNCHANGED <<world, sectors, _shown, batch>>
         /\ \A q \in (DOMAIN shown) \cap (DOMAIN shown') : shown'[q] = shown[q]
         /\ last'.op = "show_sector" =>
               LET P == {q \in C24_Bucket(last'.position) :
                            q \notin DOMAIN shown /\ exposed(Store, q)}
               IN  /\ DOMAIN shown' = (DOMAIN shown) \cup P
                   /\ C24_Enqueued("_show_block", P)
         /\ last'.op = "hide_sector" =>
               LET P == C24_Bucket(last'.position) \cap DOMAIN shown
               IN  /\ DOMAIN shown' = (DOMAIN shown) \ P
                   /\ C24_Enqueued("_hide_block", P)]_vars

\* hide_sector has hidden the shown blocks of a bucket, their hides waiting
\* in the queue, while the blocks of another bucket stay shown.
C24_Witness ==
    /\ last.op = "hide_sector"
    /\ err = "ok"
    /\ DOMAIN shown # {}
    /\ queue # << >>
    /\ queue[Len(queue)].func = "_hide_block"
    /\ queue[Len(queue)].args[1] \in C24_Bucket(last.position)
    /\ queue[Len(queue)].args[1] \in DOMAIN _shown

---------------------------------------------------------------------------
(* C25 *)

\* Every exposed block of the store s whose sector is in the neighbourhood
\* of `sector` is shown and holds a handle.
C25_Populated(s, sector) ==
    \A q \in DOMAIN s.world :
        (exposed(s, q) /\ sectorize(q, 1) \in SectorSet(sector))
            => (q \in DOMAIN s.shown /\ q \in DOMAIN s._shown)

\* C25: Window.update makes the full drain on the first tick, when
\* self.sector is None, and only then.  That first update returns with the
\* queue empty and with every exposed block of the neighbourhood of the
\* player's sector shown and holding a handle; on a later tick the queue
\* loses the calls process_queue made and no others.
C25_FullDrainOnFirstTick ==
    [][last'.op = "update" =>
         IF at_sector = None
         THEN /\ err' = "ok"
              /\ queue' = << >>
              /\ C25_Populated([world |-> world', shown |-> shown',
                                _shown |-> _shown'], at_sector')
         ELSE err' = "ok" =>
              /\ Len(queue') >= Len(queue) - last'.position[1]
              /\ SubSeq(queue', 1, Len(queue) - last'.position[1])
                    = SubSeq(queue, last'.position[1] + 1, Len(queue))
              /\ _shown' = process_queue(Store, last'.position[1])._shown]_vars

\* A later tick has moved the player to another sector and has left calls
\* pending.
C25_Witness ==
    /\ last.op = "update"
    /\ err = "ok"
    /\ last.position[2] # None
    /\ last.position[2] # last.position[3]
    /\ queue # << >>
    /\ DOMAIN _shown # {}

---------------------------------------------------------------------------
(* C28 *)

\* C28: as long as only the player moves, every tick returns, and at its end
\* shown is exactly the set of the exposed blocks of world whose sector is in
\* the neighbourhood N(s) of the sector s the player is in, whatever sectors
\* the player was in before.
C28_ShownFollowsPlayer ==
    last.op = "update" =>
        /\ err = "ok"
        /\ at_sector = last.position[3]
        /\ DOMAIN shown =
              {q \in DOMAIN world :
                  exposed(Store, q) /\ sectorize(q, 1) \in SectorSet(at_sector)}

\* The player has come back, in one tick, to a sector left several sectors
\* behind, and a part of the world that was hidden is shown again; some
\* exposed blocks are out of the neighbourhood and are not shown.
C28_Witness ==
    /\ last.op = "update"
    /\ err = "ok"
    /\ steps = MaxOps
    /\ last.position[2] # None
    /\ last.position[2] # last.position[3]
    /\ DOMAIN shown # {}
    /\ \E q \in DOMAIN shown : sectorize(q, 1) \notin SectorSet(last.position[2])

---------------------------------------------------------------------------
(* C26 *)

\* The immediate edit that took the store to s returned, and the full drain
\* of what is pending returns too and leaves the handles on the keys of shown.
C26_Safe(s) ==
    /\ s.err = "ok"
    /\ process_entire_queue(s).err = "ok"
    /\ DOMAIN process_entire_queue(s)._shown = DOMAIN process_entire_queue(s).shown

\* C26: in every reachable state, calls of show_sector and hide_sector still
\* pending or not, add_block(p, kind) and remove_block(p) on a position of
\* world, both immediate, return, release no handle that does not exist, and
\* leave the handles on exactly the keys of shown once the queue is drained.
C26_ImmediateEditsAreSafe ==
    Running =>
        /\ \A p \in EditPositions, kind \in Inventory :
              C26_Safe(add_block(Store, p, kind, TRUE))
        /\ \A p \in EditPositions \cap DOMAIN world :
              C26_Safe(remove_block(Store, p, TRUE))

---------------------------------------------------------------------------
(* C27 *)

\* The store s after its pending calls are made in the order of the queue,
\* a show that finds a live handle counting as a failure like a hide that
\* finds none.
RECURSIVE C27_Replay(_)
C27_Replay(s) ==
    IF s.err # "ok" \/ s.queue = << >> THEN s
    ELSE IF Head(s.queue).func = "_show_block"
            /\ Head(s.queue).args[1] \in DOMAIN s._shown
         THEN Raise(s, "LiveHandle")
         ELSE C27_Replay(_dequeue(s))

\* C27: with the world as generated, after any calls of change_sectors,
\* show_sector, hide_sector, process_queue and process_entire_queue, making
\* the pending calls in the order of the queue on the handles as they are
\* fails at none of them and leaves the handles on exactly the keys of shown.
C27_QueueReplaysToShown ==
    pc = "run" =>
        /\ err = "ok"
        /\ C27_Replay(Store).err = "ok"
        /\ DOMAIN C27_Replay(Store)._shown = DOMAIN shown

\* A store, drained in part, whose queue holds a show of a position and
\* behind it a hide of the same position, while a handle waits for its hide.
C27_Witness ==
    /\ pc = "run"
    /\ last.op = "process_queue"
    /\ \E i \in 1..Len(queue), j \in 1..Len(queue) :
          /\ i < j
          /\ queue[i].func = "_show_block"
          /\ queue[j].func = "_hide_block"
          /\ queue[i].args[1] = queue[j].args[1]
          /\ queue[i].args[1] \notin DOMAIN shown
    /\ \E k \in 1..Len(queue) :
          queue[k].func = "_hide_block" /\ queue[k].args[1] \in DOMAIN _shown

---------------------------------------------------------------------------
(* C29 *)

\* C29: in every reachable state every position of shown is in world and
\* shown holds for it the textures of the kind world holds for it, also
\* after add_block has replaced the block with one of another kind, with
\* either value of immediate.
C29_ShownHoldsTexturesOfWorld ==
    \A p \in DOMAIN shown :
        p \in DOMAIN world /\ shown[p] = BLOCKS[world[p]]

---------------------------------------------------------------------------
(* C31 *)

\* C31: when hit_test returns a hit, the hit is in world, and the previous
\* position is not the hit and is None or a position absent from world;
\* it is None only when the block the origin rounds to is occupied.  So a
\* block placed at previous replaces no block.
C31_PreviousIsFree ==
    (last.op = "hit_test" /\ last.result[1] # None) =>
        /\ last.result[1] \in DOMAIN world
        /\ last.result[2] # last.result[1]
        /\ last.result[2] \notin DOMAIN world
        /\ last.result[2] = None =>
              normalize(last.position[1], HitSteps) \in DOMAIN world

\* A line of sight that starts inside a block: the hit is the block of the
\* origin and there is no previous position.
C31_Witness ==
    /\ last.op = "hit_test"
    /\ last.result[1] # None
    /\ last.result[2] = None
    /\ last.result[1] = normalize(last.position[1], HitSteps)

---------------------------------------------------------------------------
(* C32 *)

\* C32: through any mouse presses, whatever the button, the modifiers, the
\* player's position and the line of sight, every position that holds
\* bedrock goes on holding bedrock: a left click removes no bedrock and a
\* right click replaces none.
C32_BedrockStays ==
    [][\A p \in DOMAIN world :
          world[p] = "bedrock" =>
              (p \in DOMAIN world' /\ world'[p] = "bedrock")]_vars

\* A plain left click on a bedrock block in the line of sight has returned.
C32_Witness ==
    /\ last.op = "on_mouse_press"
    /\ err = "ok"
    /\ last.button = "LEFT"
    /\ ~last.ctrl
    /\ last.result[1] # None
    /\ last.result[1] \in DOMAIN world
    /\ world[last.result[1]] = "bedrock"

---------------------------------------------------------------------------
(* C33 *)

\* floor(n / CHUNK_SIZE): the q with q * CHUNK_SIZE <= n < (q + 1) * CHUNK_SIZE.
C33_Floor(n) ==
    CHOOSE q \in (0 - Abs(n) - 1)..(Abs(n) + 1) :
        q * CHUNK_SIZE <= n /\ n < (q + 1) * CHUNK_SIZE

\* C33: the sector of an integer position (x, y, z) is
\* (floor(x / CHUNK_SIZE), 0, floor(z / CHUNK_SIZE)), floor rounding toward
\* minus infinity; it does not depend on y, so that the positions of a
\* column are all in one sector, the one in whose bucket they are kept.
C33_SectorizeIsFloor ==
    \A p \in DOMAIN world :
        /\ sectorize(p, 1) = <<C33_Floor(p[1]), 0, C33_Floor(p[3])>>
        /\ \A y \in Heights : sectorize(<<p[1], y, p[3]>>, 1) = sectorize(p, 1)
        /\ <<C33_Floor(p[1]), 0, C33_Floor(p[3])>> \in DOMAIN sectors
        /\ p \in Range(sectors[<<C33_Floor(p[1]), 0, C33_Floor(p[3])>>])

\* A world with blocks at negative x and z and with columns of several
\* blocks, kept in more than one bucket.
C33_Witness ==
    /\ \E p \in DOMAIN world, q \in DOMAIN world :
          /\ p[1] < 0 /\ p[3] < 0
          /\ q[1] = p[1] /\ q[3] = p[3] /\ q[2] # p[2]
          /\ C33_Floor(p[1]) < 0
    /\ Cardinality(DOMAIN sectors) > 1

---------------------------------------------------------------------------
(* C34 *)

\* C34: show_block(p, immediate) with p absent from world raises, and shown,
\* the handles, the batch and the queue are as before the call (and so are
\* world and sectors).
C34_ShowAbsentRaises ==
    [][(last'.op = "show_block" /\ ~last'.in_world) =>
         /\ err' = "KeyError"
         /\ UNCHANGED <<shown, _shown, batch, queue, world, sectors>>]_vars

\* show_block of a position absent from world has raised in a store that
\* shows blocks and has calls pending.
C34_Witness ==
    /\ last.op = "show_block"
    /\ ~last.in_world
    /\ err = "KeyError"
    /\ DOMAIN shown # {}
    /\ queue # << >>

---------------------------------------------------------------------------
(* C35 *)

\* The search is over and the player is at a position (0, y, 0) that holds
\* no block.
C35_Spawned ==
    /\ last.op = "spawn"
    /\ last.done
    /\ last.position[1] = 0
    /\ last.position[3] = 0
    /\ last.position \notin DOMAIN world

\* C35: the spawn search of Window.__init__ terminates, whatever the terrain
\* generated, and leaves the player at a position (0, y, 0) that holds no
\* block.
C35_SpawnSearchEnds ==
    (last.op = "generate_terrain") ~> C35_Spawned

\* The search has climbed a column of several blocks, next to a lower one,
\* and has left the player above it.
C35_Witness ==
    /\ C35_Spawned
    /\ last.spawny > 3
    /\ <<0, last.position[2] - 2, 0>> \in DOMAIN world
    /\ <<0, 1, 1>> \notin DOMAIN world

=============================================================================
